---- MODULE Spec2Model ----
(***************************************************************************)
(* HLTV fantasy roster solver (src/main.py).                               *)
(*                                                                         *)
(* The script imports seven tables, builds a mixed-integer model           *)
(* (variables X, Y, Z, W, an objective, a list of constraints), calls      *)
(* the solver once, and prints a per-day report from the solved values.    *)
(*                                                                         *)
(* Numbers: probabilities are multiples of 1/ProbSteps, ratings are in     *)
(* tenths, W[p,g] is held as a numerator over WDen = ProbSteps^nG, and     *)
(* the objective is held multiplied by 2 * ProbSteps * WDen.               *)
(* Binary variables are held as the set of keys whose value is 1.          *)
(***************************************************************************)
EXTENDS Integers, Sequences, FiniteSets

VARIABLES data, pc, err, status, X, Y, Z, W, ObjVal, day, out, total

vars == <<data, pc, err, status, X, Y, Z, W, ObjVal, day, out, total>>

(* ---------------- bounds of the imported tables ---------------- *)
MaxPlayers == 28
MaxRoles == 2
MaxBoosters == 2
MaxGames == 2
ProbSteps == 4

(* ---------------- constants of the script ---------------- *)
RAT == 2
R1W == 8
TeamCap == 2
Budget == 1000000
RosterSize == 5
Sonic == 27
TeamBlock == 5

RECURSIVE Pow(_, _)
Pow(b, e) == IF e = 0 THEN 1 ELSE b * Pow(b, e - 1)

(* ---------------- the imported tables (module data) ---------------- *)
\* The tables come from the module "data", which the script only imports.
\* A data set is: the number of players, the number of consecutive
\* players that share a team, the price list, and the numbers of roles,
\* boosters and games.
SmallEvent == 15
CheapPlayers == {0, 1, 2, 5, 6, 10, Sonic}

Shapes ==
    { [nR |-> 1, nB |-> 1, nG |-> MaxGames],
      [nR |-> MaxRoles, nB |-> 1, nG |-> 1],
      [nR |-> 1, nB |-> MaxBoosters, nG |-> 1],
      [nR |-> 1, nB |-> 1, nG |-> 0] }

DataSets ==
    { [nP |-> n, perTeam |-> k, pricing |-> c,
       nR |-> s.nR, nB |-> s.nB, nG |-> s.nG] :
         n \in {SmallEvent, Sonic, MaxPlayers},
         k \in {3, 5, 7},
         c \in {"tight", "steep"},
         s \in Shapes }

P == 0 .. (data.nP - 1)
B == 0 .. (data.nB - 1)
G == 0 .. (data.nG - 1)
R == 0 .. (data.nR - 1)

\* Players[p] = <<name, team>>; in Python Players[p][1] is the team.
Players == [p \in P |-> <<p, p \div data.perTeam>>]

Teams == {Players[p][2] : p \in P}

\* WP[t]: win probability of team t, in 1/ProbSteps; one entry per team.
WP == [t \in Teams |-> ((3 * t) % ProbSteps) + 1]

\* Rating[p] = <<1-month rating, long rating>>, in tenths.
Rating ==
    [p \in P |-> IF p = Sonic THEN <<15, 14>> ELSE <<10 + (p % 4), 9 + (p % 3)>>]

Price ==
    [p \in P |->
        IF data.pricing = "steep" THEN 900000
        ELSE IF p = Sonic THEN 100000
        ELSE IF p \in CheapPlayers THEN 200000 ELSE 900000]

\* Roles[p][r] = <<name, small-trigger probability, big-trigger probability>>.
Roles == [p \in P |-> [r \in R |-> <<r, (p + r) % 3, p % 2>>]]

\* Boosters[p][b] = <<name, bonus>>.
Boosters == [p \in P |-> [b \in B |-> <<b, (p + b) % (ProbSteps + 1)>>]]

WDen == Pow(ProbSteps, data.nG)

(* ---------------- variables of the model ---------------- *)
XVar(p) == <<"X", p, 0, 0>>
YVar(p, r) == <<"Y", p, r, 0>>
ZVar(p, b, g) == <<"Z", p, b, g>>

XVars == {XVar(p) : p \in P}
YVars == {YVar(p, r) : p \in P, r \in R}
ZVars == {ZVar(p, b, g) : p \in P, b \in B, g \in G}
WKeys == P \X G

(* ---------------- constraints, as the script adds them ---------------- *)
\* A linear constraint: lhs maps each variable of its support to its
\* coefficient; sense is "<=" or "=="; rhs is the constant side; vars is
\* the support, pos and neg are the variables with a positive and a negative coefficient.
Constr(lhs, sense, rhs) ==
    [lhs |-> lhs, sense |-> sense, rhs |-> rhs, vars |-> DOMAIN lhs,
     pos |-> {v \in DOMAIN lhs : lhs[v] > 0},
     neg |-> {v \in DOMAIN lhs : lhs[v] < 0}]

\* Mutation: the team cap is one too high.
TeamCapConstrs_Loose ==
    { Constr([v \in {XVar(p) : p \in {q \in P : Players[q][2] = t}} |-> 1],
             "<=", TeamCap + 1) : t \in {x[2] : x \in {Players[p] : p \in P}} }

\* for t in set(x[1] for x in Players): sum(X[p] if Players[p][1] == t) <= 2
TeamCapConstrs ==
    { Constr([v \in {XVar(p) : p \in {q \in P : Players[q][2] = t}} |-> 1],
             "<=", TeamCap) : t \in {x[2] : x \in {Players[p] : p \in P}} }

\* sum(X[p] * Price[p]) <= 1000000
BudgetConstrs == { Constr([v \in XVars |-> Price[v[2]]], "<=", Budget) }

\* sum(X[p]) == 5
RosterConstrs == { Constr([v \in XVars |-> 1], "==", RosterSize) }

\* for b: sum over p, g of Z <= 1; for g: sum over p of Z <= 1
BoosterOnceConstrs ==
    { Constr([v \in {ZVar(p, b, g) : p \in P, g \in G} |-> 1], "<=", 1) : b \in B }
    \cup
    { Constr([v \in {ZVar(p, bg[1], bg[2]) : p \in P} |-> 1], "<=", 1) :
        bg \in B \X G }

\* Mutation: the one-booster-per-player-and-game constraints are not added.
PlayerGameConstrs_Missing == {}

\* for p, g: sum over b of Z <= 1
PlayerGameConstrs ==
    { Constr([v \in {ZVar(pg[1], b, pg[2]) : b \in B} |-> 1], "<=", 1) :
        pg \in P \X G }

\* for r: sum over p of Y <= 1
RoleOnceConstrs ==
    { Constr([v \in {YVar(p, r) : p \in P} |-> 1], "<=", 1) : r \in R }

\* Mutation: the one-role-per-player constraints are not added.
PlayerRoleConstrs_Missing == {}

\* for p: sum over r of Y <= 1
PlayerRoleConstrs ==
    { Constr([v \in {YVar(p, r) : r \in R} |-> 1], "<=", 1) : p \in P }

\* Z[p, b, g] <= X[p]
BoosterLinkConstrs ==
    { Constr([v \in {ZVar(k[1], k[2], k[3]), XVar(k[1])} |->
                 IF v = XVar(k[1]) THEN -1 ELSE 1], "<=", 0) :
        k \in P \X B \X G }

\* Mutation: a role is not tied to the selection of its player.
RoleLinkConstrs_Unlinked ==
    { Constr([v \in {YVar(k[1], k[2])} |-> 1], "<=", 1) : k \in P \X R }

\* Y[p, r] <= X[p]
RoleLinkConstrs ==
    { Constr([v \in {YVar(k[1], k[2]), XVar(k[1])} |->
                 IF v = XVar(k[1]) THEN -1 ELSE 1], "<=", 0) :
        k \in P \X R }

\* Mutation: the exclusion names the player before the one intended.
SonicConstrs_OffByOne == { Constr([v \in {XVar(Sonic - 1)} |-> 1], "==", 0) }

\* X[27] == 0
SonicConstrs == { Constr([v \in {XVar(Sonic)} |-> 1], "==", 0) }

\* W[p, 0] == 1; W[p, g] == math.pow(WP[math.floor(p / 5)], g + 1)
WConstrs ==
    [k \in WKeys |->
        IF k[2] = 0 THEN WDen
        ELSE Pow(WP[k[1] \div TeamBlock], k[2] + 1)
             * Pow(ProbSteps, data.nG - (k[2] + 1))]

Constrs ==
    TeamCapConstrs \cup BudgetConstrs \cup RosterConstrs \cup BoosterOnceConstrs
    \cup PlayerGameConstrs \cup RoleOnceConstrs \cup PlayerRoleConstrs
    \cup BoosterLinkConstrs \cup RoleLinkConstrs \cup SonicConstrs

(* ---------------- the solver: any point of the feasible region -------- *)
RECURSIVE SumOver(_, _)
SumOver(f, S) ==
    IF S = {} THEN 0
    ELSE LET v == CHOOSE u \in S : TRUE IN f[v] + SumOver(f, S \ {v})

\* Value of a constraint's left side when exactly the variables of T are 1.
Lhs(c, T) == SumOver(c.lhs, T \cap c.vars)

\* The solver decides the binary variables in a fixed order: the X, then
\* the Y, then the Z.  VarAt(i) is the i-th variable and At(v) its position.
NumBinVars == data.nP * (1 + data.nR + data.nB * data.nG)

At(v) ==
    IF v[1] = "X" THEN v[2] + 1
    ELSE IF v[1] = "Y" THEN data.nP + v[2] * data.nR + v[3] + 1
    ELSE data.nP * (1 + data.nR) + (v[2] * data.nB + v[3]) * data.nG + v[4] + 1

VarAt(i) ==
    IF i <= data.nP THEN XVar(i - 1)
    ELSE IF i <= data.nP * (1 + data.nR)
           THEN LET k == i - data.nP - 1
                IN  YVar(k \div data.nR, k % data.nR)
           ELSE LET k == i - data.nP * (1 + data.nR) - 1
                IN  ZVar(k \div (data.nB * data.nG),
                         (k \div data.nG) % data.nB, k % data.nG)

\* Can c still hold when the variables of T are 1, the other variables
\* up to position i are 0 and the other variables after it are undecided?
Possible(c, T, i) ==
    LET now == Lhs(c, T)
    IN  IF c.sense = "<="
          THEN now + SumOver(c.lhs, {u \in c.neg \ T : At(u) > i}) <= c.rhs
          ELSE /\ now + SumOver(c.lhs, {u \in c.neg \ T : At(u) > i}) <= c.rhs
               /\ c.rhs <= now + SumOver(c.lhs, {u \in c.pos \ T : At(u) > i})

\* Setting v to 0 can only break a constraint that counted on v: one where
\* v lowers the left side, or an equality where v raises it.
NeedsOne(c, v) == v \in c.neg \/ (c.sense = "==" /\ v \in c.pos)

\* For each position from i on, the constraints to look at when the
\* variable there is set to 1 (every constraint it occurs in) ...
RECURSIVE Touching(_, _)
Touching(cs, i) ==
    IF i > NumBinVars THEN <<>>
    ELSE <<{c \in cs : VarAt(i) \in c.vars}>> \o Touching(cs, i + 1)

\* ... and when it is set to 0.
RECURSIVE Needing(_, _)
Needing(cs, i) ==
    IF i > NumBinVars THEN <<>>
    ELSE <<{c \in cs : NeedsOne(c, VarAt(i))}>> \o Needing(cs, i + 1)

\* Can the variable at position k be 1, given T and the decisions up to i?
\* Once it cannot, it cannot after any further decision either.
CanBeOne(k, T, i, touching) ==
    \A c \in touching[k] : Possible(c, T \cup {VarAt(k)}, i)

\* Every 0/1 assignment of the positions from i on that extends T and
\* satisfies every constraint.  live lists, in order, the positions from i
\* on whose variable may still be 1; the others are 0.  On entry every
\* constraint is Possible for (T, i - 1).
RECURSIVE Search(_, _, _, _, _)
Search(i, T, live, touching, needing) ==
    IF live = <<>>
      THEN IF \A k \in i .. NumBinVars :
                \A c \in needing[k] : Possible(c, T, NumBinVars)
             THEN {T} ELSE {}
      ELSE LET j == Head(live)
               T1 == T \cup {VarAt(j)}
               StillLive(k) == CanBeOne(k, T1, j, touching)
           IN  IF \E k \in i .. (j - 1) :
                    \E c \in needing[k] : ~Possible(c, T, j - 1)
                 THEN {}
                 ELSE (IF \A c \in needing[j] : Possible(c, T, j)
                         THEN Search(j + 1, T, Tail(live), touching, needing)
                         ELSE {})
                      \cup
                      (IF \A c \in touching[j] : Possible(c, T1, j)
                         THEN Search(j + 1, T1, SelectSeq(Tail(live), StillLive),
                                     touching, needing)
                         ELSE {})

\* The 0/1 points that satisfy every constraint of cs.
BinFeasible(cs) ==
    LET touching == Touching(cs, 1)
        needing == Needing(cs, 1)
        Live(k) == CanBeOne(k, {}, 0, touching)
    IN  IF \E c \in cs : ~Possible(c, {}, 0) THEN {}
        ELSE Search(1, {}, SelectSeq([k \in 1 .. NumBinVars |-> k], Live),
                    touching, needing)

\* W has lb = 0 and ub = 1, and each W[p, g] is fixed by an equality.
WFeasible == \A k \in WKeys : 0 <= WConstrs[k] /\ WConstrs[k] <= WDen

(* ---------------- the objective, term by term as the script sums it ---- *)
\* Values are multiplied by 2 * ProbSteps * WDen; w[p, g] is a numerator over WDen; a
\* term whose binary variable is 0 contributes nothing to its quicksum.
RatingPoints(p) == (R1W * Rating[p][1] + RAT * Rating[p][2] - 100) * ProbSteps

Objective(x, y, z, w) ==
    SumOver([k \in x \X G |-> w[k[1], k[2]] * RatingPoints(k[1])], x \X G)
    + SumOver([k \in z |-> w[k[1], k[3]] * Boosters[k[1]][k[2]][2] * 10], z)
    + ( SumOver([k \in y \X G |->
                    w[k[1][1], k[2]] * Roles[k[1][1]][k[1][2]][2] * 4], y \X G)
        + SumOver([k \in y \X G |->
                    w[k[1][1], k[2]] * Roles[k[1][1]][k[1][2]][3] * 10], y \X G)
        - SumOver([k \in y \X G |->
                    w[k[1][1], k[2]]
                    * (ProbSteps - Roles[k[1][1]][k[1][2]][2]
                                 - Roles[k[1][1]][k[1][2]][3]) * 4], y \X G) )
    + SumOver([k \in x \X G |->
                  w[k[1], k[2]] * WP[k[1] \div TeamBlock] * 12], x \X G)
    - SumOver([k \in x \X G |->
                  w[k[1], k[2]] * (ProbSteps - WP[k[1] \div TeamBlock]) * 6],
              x \X G)

(* ---------------- the report ---------------- *)
DayHeader(g) == [kind |-> "day", day |-> g, player |-> -1, role |-> -1, booster |-> -1]
BoosterLine(g, p, r, b) ==
    [kind |-> "booster", day |-> g, player |-> p, role |-> r, booster |-> b]
NoBoosterLine(g, p, r) ==
    [kind |-> "no booster", day |-> g, player |-> p, role |-> r, booster |-> -1]

\* for b in B: if Z[p, b, g].x == 1: print(... "and booster" ...)
RECURSIVE BoosterLines(_, _, _, _)
BoosterLines(g, p, r, b) ==
    IF b >= data.nB THEN <<>>
    ELSE (IF <<p, b, g>> \in Z THEN <<BoosterLine(g, p, r, b)>> ELSE <<>>)
         \o BoosterLines(g, p, r, b + 1)

\* Mutation: the "no booster" line is never printed.
RECURSIVE RoleLines_NoFallback(_, _, _)
RoleLines_NoFallback(g, p, r) ==
    IF r >= data.nR THEN <<>>
    ELSE (IF <<p, r>> \in Y THEN BoosterLines(g, p, r, 0) ELSE <<>>)
         \o RoleLines_NoFallback(g, p, r + 1)

\* for r in R: if Y[p, r].x == 1: the booster lines, then
\* if sum(Z[p, b, g].x for b in B) == 0: print(... "and no booster")
RECURSIVE RoleLines(_, _, _)
RoleLines(g, p, r) ==
    IF r >= data.nR THEN <<>>
    ELSE (IF <<p, r>> \in Y
            THEN BoosterLines(g, p, r, 0)
                 \o (IF Cardinality({b \in B : <<p, b, g>> \in Z}) = 0
                       THEN <<NoBoosterLine(g, p, r)>> ELSE <<>>)
            ELSE <<>>)
         \o RoleLines(g, p, r + 1)

\* for p in P: if X[p].x == 1: ...
RECURSIVE PlayerLines(_, _)
PlayerLines(g, p) ==
    IF p >= data.nP THEN <<>>
    ELSE (IF p \in X THEN RoleLines(g, p, 0) ELSE <<>>) \o PlayerLines(g, p + 1)

\* sum(X[p].x * Price[p] for p in P if X[p].x == 1)
TotalPrice == SumOver(Price, X)

(* ---------------- the script, step by step ---------------- *)
NoValues ==
    /\ X = {} /\ Y = {} /\ Z = {} /\ W = <<>> /\ ObjVal = 0

Init ==
    /\ data \in DataSets
    /\ pc = "start"
    /\ err = "none"
    /\ status = "LOADED"
    /\ NoValues
    /\ day = 0
    /\ out = <<>>
    /\ total = 0

Fail(e) ==
    /\ pc' = "error"
    /\ err' = e

\* Lines 52-102: set sizes, variables, objective.  The objective looks up
\* WP[math.floor(p / 5)] for every p and g.
BuildObjective ==
    /\ pc = "start"
    /\ IF \E p \in P, g \in G : (p \div TeamBlock) \notin DOMAIN WP
         THEN Fail("IndexError")
         ELSE pc' = "objective" /\ err' = err
    /\ UNCHANGED <<data, status, X, Y, Z, W, ObjVal, day, out, total>>

\* Lines 118-165: the constraints.  X[27] is looked up at line 158, WP at
\* line 165 for every p and every g >= 1.
BuildConstraints ==
    /\ pc = "objective"
    /\ IF Sonic \notin P
         THEN Fail("KeyError")
         ELSE IF \E p \in P, g \in G : g # 0 /\ (p \div TeamBlock) \notin DOMAIN WP
                THEN Fail("IndexError")
                ELSE pc' = "built" /\ err' = err
    /\ UNCHANGED <<data, status, X, Y, Z, W, ObjVal, day, out, total>>

Selected(T) == {v[2] : v \in {u \in T : u[1] = "X"}}
RolesOf(T) == {<<v[2], v[3]>> : v \in {u \in T : u[1] = "Y"}}
BoostersOf(T) == {<<v[2], v[3], v[4]>> : v \in {u \in T : u[1] = "Z"}}

\* Line 167: m.optimize().  The solver leaves a status and, when the model
\* has a solution, a value on every variable and the objective value.
Optimize ==
    /\ pc = "built"
    /\ LET F == IF WFeasible THEN BinFeasible(Constrs) ELSE {}
       IN  IF F = {}
             THEN /\ status' = "INFEASIBLE"
                  /\ UNCHANGED <<X, Y, Z, W, ObjVal>>
             ELSE \E T \in F :
                  /\ status' = "OPTIMAL"
                  /\ X' = Selected(T)
                  /\ Y' = RolesOf(T)
                  /\ Z' = BoostersOf(T)
                  /\ W' = WConstrs
                  /\ ObjVal' = Objective(Selected(T), RolesOf(T), BoostersOf(T),
                                         WConstrs)
    /\ pc' = "report"
    /\ UNCHANGED <<data, err, day, out, total>>

\* Lines 170-194, one iteration of "for g in G".  X[p].x exists only when
\* the solver found a solution.
ReportDay ==
    /\ pc = "report"
    /\ day < data.nG
    /\ IF status # "OPTIMAL"
         THEN /\ Fail("AttributeError")
              /\ out' = Append(out, DayHeader(day))
              /\ day' = day
         ELSE /\ out' = Append(out, DayHeader(day)) \o PlayerLines(day, 0)
              /\ day' = day + 1
              /\ UNCHANGED <<pc, err>>
    /\ UNCHANGED <<data, status, X, Y, Z, W, ObjVal, total>>

\* Lines 196-199: total price and m.ObjVal.
ReportTotals ==
    /\ pc = "report"
    /\ day = data.nG
    /\ IF status # "OPTIMAL"
         THEN Fail("AttributeError") /\ total' = total
         ELSE pc' = "done" /\ err' = err /\ total' = TotalPrice
    /\ UNCHANGED <<data, status, X, Y, Z, W, ObjVal, day, out>>

Next ==
    \/ BuildObjective
    \/ BuildConstraints
    \/ Optimize
    \/ ReportDay
    \/ ReportTotals

Spec == Init /\ [][Next]_vars

(* ---------------- properties ---------------- *)
Solved == status = "OPTIMAL"

\* C1: in every solved assignment exactly 5 players are selected, no team
\* recorded on the player records has more than 2 selected players, and the
\* selected players' prices sum to at most 1,000,000.
C1_RosterInvariants ==
    Solved =>
        /\ Cardinality(X) = 5
        /\ \A t \in Teams : Cardinality({p \in X : Players[p][2] = t}) <= 2
        /\ SumOver(Price, X) <= 1000000

\* A solved roster that takes two players of one team and spends the whole
\* budget.
C1_Witness ==
    /\ Solved
    /\ \E t \in Teams : Cardinality({p \in X : Players[p][2] = t}) = 2
    /\ SumOver(Price, X) = 1000000

\* C2: in every solved assignment a role or a booster is only ever given to
\* a selected player.
C2_OnlySelectedHold ==
    Solved =>
        /\ \A k \in Y : k[1] \in X
        /\ \A k \in Z : k[1] \in X

C2_Witness == Solved /\ Y # {} /\ Z # {}

\* C3: in every solved assignment each role goes to at most one player and
\* each player holds at most one role.
C3_RoleUniqueness ==
    Solved =>
        /\ \A r \in R : Cardinality({p \in P : <<p, r>> \in Y}) <= 1
        /\ \A p \in P : Cardinality({r \in R : <<p, r>> \in Y}) <= 1

\* Two roles are assigned (to two players).
C3_Witness == Solved /\ Cardinality(Y) = 2

\* C4: in every solved assignment each booster is active for at most one
\* (player, game) pair over the schedule, for at most one player in a game,
\* and each player uses at most one booster in a game.
C4_BoosterUniqueness ==
    Solved =>
        /\ \A b \in B :
              Cardinality({k \in P \X G : <<k[1], b, k[2]>> \in Z}) <= 1
        /\ \A b \in B, g \in G :
              Cardinality({p \in P : <<p, b, g>> \in Z}) <= 1
        /\ \A p \in P, g \in G :
              Cardinality({b \in B : <<p, b, g>> \in Z}) <= 1

\* Two boosters are in use in one game; a booster is in use when there are
\* two games.
C4_Witness ==
    /\ Solved
    /\ \/ Cardinality(Z) = 2
       \/ data.nG = 2 /\ Z # {}

\* The players the script disqualifies: the one whose role statistics are
\* not filled in.
Disqualified == {Sonic}

C6_InfeasibleIsReported ==
    status = "INFEASIBLE" => pc # "error"

\* C7: for tables of any size, building the variables, the objective and the
\* constraints completes without error.
C7_BuildAlwaysCompletes ==
    ~(pc = "error" /\ err \in {"KeyError", "IndexError"})

\* C8: in every solved assignment W[p, 0] = 1 and, for g >= 1, W[p, g] is
\* the win probability of the player's own team (the team on the player's
\* record) to the power g + 1; so every W[p, g] is within [0, 1].
C8_SurvivalWeightOfOwnTeam ==
    Solved =>
        \A p \in P, g \in G :
            /\ W[p, g] = IF g = 0 THEN WDen
                         ELSE Pow(WP[Players[p][2]], g + 1)
                              * Pow(ProbSteps, data.nG - (g + 1))
            /\ 0 <= W[p, g] /\ W[p, g] <= WDen

\* The lines of the report about player p on day g.
LinesFor(g, p) ==
    {i \in 1 .. Len(out) :
        out[i].kind # "day" /\ out[i].day = g /\ out[i].player = p}

\* C9: for every reported game and every selected player that holds a
\* role, the game's block has exactly one line for the player: the booster
\* line if a booster is active for (player, game), the "no booster" line
\* otherwise.
C9_OneLinePerPlayerAndGame ==
    Solved =>
        \A g \in 0 .. (day - 1) : \A p \in X :
            (\E r \in R : <<p, r>> \in Y) =>
                /\ Cardinality(LinesFor(g, p)) = 1
                /\ \A i \in LinesFor(g, p) :
                      /\ <<p, out[i].role>> \in Y
                      /\ IF \E b \in B : <<p, b, g>> \in Z
                           THEN /\ out[i].kind = "booster"
                                /\ <<p, out[i].booster, g>> \in Z
                           ELSE out[i].kind = "no booster"

\* The whole report is out, with a player who has a booster line on one
\* day and a "no booster" line on another.
C9_Witness ==
    /\ pc = "done"
    /\ \E i, j \in 1 .. Len(out) :
          /\ out[i].kind = "booster"
          /\ out[j].kind = "no booster"
          /\ out[i].player = out[j].player

XVal(p) == IF p \in X THEN 1 ELSE 0
YVal(p, r) == IF <<p, r>> \in Y THEN 1 ELSE 0
ZVal(p, b, g) == IF <<p, b, g>> \in Z THEN 1 ELSE 0

\* Expected points of player p in one game, times 2 * ProbSteps, with the
\* win probability of the player's own team.
GamePoints(p, g) ==
    XVal(p) * RatingPoints(p)
    + SumOver([b \in B |-> ZVal(p, b, g) * Boosters[p][b][2] * 10], B)
    + SumOver([r \in R |->
                  YVal(p, r) * (4 * Roles[p][r][2] + 10 * Roles[p][r][3]
                                - 4 * (ProbSteps - Roles[p][r][2]
                                                 - Roles[p][r][3]))], R)
    + XVal(p) * (12 * WP[Players[p][2]]
                 - 6 * (ProbSteps - WP[Players[p][2]]))

DecayScore == SumOver([k \in P \X G |-> W[k] * GamePoints(k[1], k[2])], P \X G)

FlatScore == SumOver([k \in P \X G |-> WDen * GamePoints(k[1], k[2])], P \X G)

\* C10: the objective value is the decay-variant score, the sum over
\* players and games of W[p, g] times the player's expected points in the
\* game, with the win probability of the player's own team; when every
\* W[p, g] is 1 it is the flat-variant score.
C10_ObjectiveIsDecayScore ==
    Solved =>
        /\ ObjVal = DecayScore
        /\ (\A k \in P \X G : W[k] = WDen) => ObjVal = FlatScore

====
